---- MODULE Spec2Model ----
(***************************************************************************)
(* Model of the data synchronisation and caching engine of src/app.py:     *)
(* DataCache (a TTL cache behind one Lock), fetch_worksheet_with_retry     *)
(* (bounded retry with exponential backoff), load_sensor_data (cache-aside *)
(* load with normalisation), run by concurrent request threads.            *)
(***************************************************************************)
EXTENDS Integers, Sequences, FiniteSets, TLC

(* ------------------------------ bounds --------------------------------- *)
NumTasks == 2        \* concurrent threads calling load_sensor_data
MaxLoads == 2        \* loads the first thread makes one after the other
MaxTime == 121       \* the last instant at which a load may begin
MaxRemoteChanges == 1  \* edits of the remote sheet during a run
MaxSweeps == 2       \* sweeps of the background refresh thread

(* ------------------------- program constants --------------------------- *)
ttl == 120               \* DataCache(ttl_seconds=120)
max_retries == 3         \* load_sensor_data passes max_retries=3
BackoffBase == 2         \* wait_time = 2 ** attempt
RefreshPeriod == 120     \* time.sleep(120) between two sweeps

Tasks == 1..NumTasks
NoTask == 0

(* The instants at which the threads are observed: the clock jumps from
   one to a later one.  A sleep ends at the first instant not before its end.
   The instants give the ages ttl - 1, ttl and ttl + 1. *)
Instants == {0, 1, ttl, MaxTime}

(* ------------------------------ values --------------------------------- *)
None == [tag |-> "none"]
Some(v) == [tag |-> "some", val |-> v]

(* A parsed cell: a value, or the "no value" of pandas (NaN, NaT). *)
Val(n) == [ok |-> TRUE, n |-> n]
NoValue == [ok |-> FALSE, n |-> 0]

(* Cells of a worksheet as gspread hands them over: text. *)
IsNumberCell(cell) == cell \in {"1", "2", "3"}

ParseNumber(cell) ==
  CASE cell = "1" -> 1
    [] cell = "2" -> 2
    [] cell = "3" -> 3
    [] OTHER -> 0

(* Variant: a cell that is no number becomes 0. *)
to_numericZero(cell) ==
  IF cell # None /\ IsNumberCell(cell.val) THEN Val(ParseNumber(cell.val)) ELSE Val(0)

(* pd.to_numeric(col, errors='coerce') on one cell; a cell of an added
   column is None. *)
to_numeric(cell) ==
  IF cell # None /\ IsNumberCell(cell.val) THEN Val(ParseNumber(cell.val)) ELSE NoValue

(* pd.to_datetime(col, errors='coerce') on one cell *)
to_datetime(cell) ==
  IF cell # None /\ IsNumberCell(cell.val) THEN Val(ParseNumber(cell.val)) ELSE NoValue

(* The columns of required_cols the model keeps: the timestamp, one numeric
   sensor column and the one text column. *)
required_cols == {"timestamp", "co2_ppm", "pir_state"}

(* for col in required_cols: if col not in df.columns: df[col] = None *)
EnsureColumns(row) ==
  [col \in required_cols |-> IF col \in DOMAIN row THEN Some(row[col]) ELSE None]

(* The two conversions of one row: numeric columns, then the timestamp. *)
ConvertRow(row) ==
  [timestamp |-> to_datetime(row.timestamp),
   co2_ppm |-> to_numeric(row.co2_ppm),
   pir_state |-> row.pir_state]

(* The order sort_values has to respect: a row with an earlier timestamp
   comes first, a row without a timestamp after every row with one. *)
Precedes(a, b) ==
  \/ a.timestamp.ok /\ ~b.timestamp.ok
  \/ a.timestamp.ok /\ b.timestamp.ok /\ a.timestamp.n < b.timestamp.n

(* The orders the sort can produce, p[k] being the input position of the
   k-th row of the result.  sort_values is called without kind=, that is
   with kind='quicksort', which is not a stable sort: rows with equal
   timestamps come out in an order the algorithm picks.  The rows without a
   timestamp are not sorted at all, they are appended in their input order. *)
Orders(rows) ==
  { p \in [1..Len(rows) -> 1..Len(rows)] :
      /\ \A k, l \in 1..Len(rows) : k # l => p[k] # p[l]
      /\ \A k, l \in 1..Len(rows) :
           k < l => /\ ~Precedes(rows[p[l]], rows[p[k]])
                    /\ (~rows[p[k]].timestamp.ok /\ ~rows[p[l]].timestamp.ok)
                         => p[k] < p[l] }

(* df.sort_values(by='timestamp').reset_index(drop=True): the frames it can
   return, ascending, rows without a timestamp last (na_position='last'). *)
sort_values(rows) ==
  { [k \in 1..Len(rows) |-> rows[p[k]]] : p \in Orders(rows) }

(* STEP 4 of load_sensor_data on the fetched records: the frames it can
   end with. *)
Normalize(data) ==
  sort_values([i \in 1..Len(data) |-> ConvertRow(EnsureColumns(data[i]))])

(* ----------------------------- cache key ------------------------------- *)
NotSpace(c) == c # " "
RemoveSpaces(s) == SelectSeq(s, NotSpace)

(* f"{loc_name.replace(' ', '')}_{booth_name.replace(' ', '')}" *)
CacheKey(loc_name, booth_name) ==
  RemoveSpaces(loc_name) \o <<"_">> \o RemoveSpaces(booth_name)

(* The (location, booth) pairs the threads ask for. *)
Pairs ==
  { <<<<"A", " ", "B">>, <<"C">>>>,
    <<<<"A", "B">>, <<"C">>>>,
    <<<<"D">>, <<"E", " ">>>> }

AllKeys == { CacheKey(p[1], p[2]) : p \in Pairs }

(* clients.csv as pd.read_csv hands it over: a cell is text, or it is not
   (an empty cell is read as NaN, a cell of digits as a number). *)
Roster1 ==
  << [location |-> Some(<<"A", " ", "B">>), booth |-> Some(<<"C">>)],
     [location |-> Some(<<"A", "B">>), booth |-> Some(<<"C">>)],
     [location |-> Some(<<"D">>), booth |-> Some(<<"E", " ">>)] >>

Roster2 ==
  << [location |-> Some(<<"D">>), booth |-> Some(<<"E", " ">>)],
     [location |-> Some(<<"A", "B">>), booth |-> None],
     [location |-> Some(<<"A", " ", "B">>), booth |-> Some(<<"C">>)] >>

Rosters == {Roster1, Roster2}

(* loc_name.replace(' ', '') and booth_name.replace(' ', '') raise
   AttributeError on a value that is not a str. *)
KeyRaises(row) == row.location = None \/ row.booth = None

RowKey(row) == CacheKey(row.location.val, row.booth.val)

(* --------------------------- remote provider --------------------------- *)
Rows1 ==
  << [timestamp |-> "2", co2_ppm |-> "x", pir_state |-> "Occupied"],
     [timestamp |-> "1", co2_ppm |-> "1", pir_state |-> "Vacant"] >>

Rows2 ==
  << [timestamp |-> "x", co2_ppm |-> "2"],
     [timestamp |-> "3", co2_ppm |-> ""] >>

(* What the spreadsheet holds under a worksheet name: no such worksheet, or
   a worksheet with records (possibly none). *)
NoWorksheet == [kind |-> "missing", records |-> <<>>]
Worksheet(records) == [kind |-> "sheet", records |-> records]
RemoteStates == {NoWorksheet, Worksheet(<<>>), Worksheet(Rows1), Worksheet(Rows2)}

(* Outcomes of spreadsheet.worksheet(name).get_all_records(): the records,
   gspread.exceptions.WorksheetNotFound, or any other exception. *)
ProviderOutcomes(sheet) ==
  (IF sheet.kind = "missing"
     THEN {[kind |-> "WorksheetNotFound", records |-> <<>>]}
     ELSE {[kind |-> "records", records |-> sheet.records]})
  \cup {[kind |-> "Exception", records |-> <<>>]}

(* STEP 4 on each list of records the provider can hand over. *)
Normalized == [data \in { s.records : s \in RemoteStates } |-> Normalize(data)]

(* The frames STEP 4 can make of one outcome of the provider call; no frame
   is made of an exception or of an empty list of records. *)
FramesOf(o) ==
  IF o.kind = "records" /\ o.records # <<>> THEN Normalized[o.records] ELSE {<<>>}

(* create_dummy_data(): a frame of random readings ending now. *)
DummyFrames(t) ==
  { << [timestamp |-> Val(t), co2_ppm |-> Val(c), pir_state |-> Some(s)] >> :
      c \in {700, 900}, s \in {"Occupied"} }

(* ------------------------------- state --------------------------------- *)
VARIABLES
  now,          \* time.time()
  cache,        \* DataCache.cache: worksheet name -> {'data', 'timestamp'}
  lock,         \* DataCache.lock: the thread holding it, or NoTask
  spreadsheet,  \* the module global: "open", or "None" when the connection failed
  remote,       \* the spreadsheet's content, worksheet name -> RemoteStates
  changes,      \* edits of the remote content so far
  loads,        \* each thread's calls of load_sensor_data so far
  task,         \* each thread's position and locals in load_sensor_data
  hist,         \* each thread's record of what its current load did (history)
  df_clients,   \* the rows of clients.csv: location and booth of every booth
  refresher,    \* the background thread: its position, its row, its sleep
  sample        \* a function of the program taken alone: its argument and its result

vars ==
  <<now, cache, lock, spreadsheet, remote, changes, loads, task, hist,
    df_clients, refresher, sample>>

(* No records, no frame. *)
NoSample == [data |-> <<>>, df |-> None]

(* The frame of a thread outside load_sensor_data, or entering it. *)
IdleTask ==
  [pc |-> "idle", cache_key |-> <<>>, cached_data |-> None, attempt |-> 0,
   df |-> None, wake |-> 0, ret |-> None]

(* What a load remembers of the load the same thread made right before it
   for the same key, when that load wrote the cache. *)
NoPrev == [valid |-> FALSE, ret |-> None, setAt |-> -1]

(* got: what data_cache.get found; calls, waits, last: the provider calls
   issued, the sleeps asked for and the last outcome; sets, setAt: the cache
   writes; shared: the frame the thread holds is the very object that
   self.cache[key]['data'] refers to; replyAt: when the provider last
   answered; refilled: another thread has set the key's entry since this
   load's get found no valid one; prevEmpty: the thread's load of the same
   key right before this one got an empty list of records; touched: another
   thread changed the key's entry since this thread's last set of it; changed,
   prevChanged: the key's worksheet was edited since this load, or the
   previous one, began. *)
FreshHist ==
  [got |-> "none", calls |-> 0, waits |-> <<>>, last |-> "none",
   sets |-> 0, setAt |-> -1, replyAt |-> -1, touched |-> FALSE,
   changed |-> FALSE, prevChanged |-> FALSE, prev |-> NoPrev,
   shared |-> FALSE, refilled |-> FALSE, prevEmpty |-> FALSE]

(* The refresh thread right after refresh_thread.start(): in its first
   time.sleep(120).  index: the row of the for loop; log: the rows
   load_sensor_data was called for in this sweep; raised: the sweep ended in
   the except clause; endAt: when the last sweep ended; fetched: the keys
   for which a load of this sweep called the provider (history). *)
RefresherStart ==
  [pc |-> "period_sleep", index |-> 0, wake |-> RefreshPeriod, sweeps |-> 0,
   log |-> <<>>, raised |-> FALSE, endAt |-> 0, fetched |-> {}]

Init ==
  /\ df_clients = Roster1
  /\ refresher = RefresherStart
  /\ sample = NoSample
  /\ now = 0
  /\ cache = [k \in {} |-> None]
  /\ lock = NoTask
  /\ spreadsheet \in {"open", "None"}
  /\ remote = [k \in AllKeys |-> Worksheet(Rows1)]
  /\ changes = 0
  /\ loads = [t \in Tasks |-> 0]
  /\ task = [t \in Tasks |-> IdleTask]
  /\ hist = [t \in Tasks |-> FreshHist]

(* ------------------------------ DataCache ------------------------------ *)
(* Variants of the freshness test: one second short, the bound included,
   the comparison turned round. *)
FreshTooShort(age) == age < ttl - 1
FreshInclusive(age) == age <= ttl
FreshInverted(age) == age > ttl

(* if age < self.ttl *)
Fresh(age) == age < ttl

HasEntry(c, key) == key \in DOMAIN c

(* del self.cache[key] *)
CacheDel(c, key) == [k \in (DOMAIN c) \ {key} |-> c[k]]

(* Variants of the write: an existing entry keeps its timestamp; the
   mapping is replaced instead of updated. *)
CacheSetKeepsStamp(c, key, data, time) ==
  [k \in (DOMAIN c) \cup {key} |->
     IF k = key
       THEN [data |-> data,
             timestamp |-> IF key \in DOMAIN c THEN c[key].timestamp ELSE time]
       ELSE c[k]]

CacheSetDropsOthers(c, key, data, time) ==
  [k \in {key} |-> [data |-> data, timestamp |-> time]]

(* self.cache[key] = {'data': data, 'timestamp': time.time()} *)
CacheSet(c, key, data, time) ==
  [k \in (DOMAIN c) \cup {key} |->
     IF k = key THEN [data |-> data, timestamp |-> time] ELSE c[k]]

(* The value DataCache.get returns with the cache c at the given time. *)
GetResult(c, key, time) ==
  IF HasEntry(c, key)
    THEN IF Fresh(time - c[key].timestamp) THEN Some(c[key].data) ELSE None
    ELSE None

(* Variant: an expired entry is left in the mapping. *)
GetCacheKeeps(c, key, time) == c

(* The cache DataCache.get leaves behind. *)
GetCache(c, key, time) ==
  IF HasEntry(c, key)
    THEN IF Fresh(time - c[key].timestamp) THEN c ELSE CacheDel(c, key)
    ELSE c

(* The first thread is a request handler that loads several times in a
   row, the others load once. *)
LoadsOf(t) == IF t = 1 THEN MaxLoads ELSE 1

MayLoadAgain(t) == loads[t] < LoadsOf(t)

(* When a load returns, the times of its fetch and of its set, and what
   happened to the entry since, are kept only for the thread's next load. *)
AtReturn(t, h) ==
  [h EXCEPT !.replyAt = -1,
            !.setAt = IF MayLoadAgain(t) THEN h.setAt ELSE -1,
            !.touched = (MayLoadAgain(t) \/ h.prev.valid) /\ h.touched,
            !.changed = MayLoadAgain(t) /\ h.changed]

Settle(t, next, h) == IF next.pc = "done" THEN AtReturn(t, h) ELSE h

(* The threads that sit between their own last set of the key and their
   next get of it: a change of the entry by another thread concerns them. *)
Watching(u, key) ==
  /\ task[u].cache_key = key
  /\ task[u].pc \in {"load_return", "done", "get_lock", "get_body"}

Touch(t, key, h) ==
  [u \in Tasks |->
     IF u = t THEN h
     ELSE IF /\ Watching(u, key)
             /\ task[u].pc = "load_return" \/ MayLoadAgain(u) \/ hist[u].prev.valid
       THEN [hist[u] EXCEPT !.touched = TRUE, !.shared = FALSE]
     ELSE IF task[u].cache_key = key
       THEN [hist[u] EXCEPT !.shared = FALSE]
     ELSE hist[u]]

(* A set of the key's entry by thread t, as the other threads' loads that
   found no valid entry see it. *)
Refill(t, key, hs) ==
  [u \in Tasks |->
     IF u # t /\ task[u].cache_key = key /\ hs[u].got \in {"miss", "stale"}
       THEN [hs[u] EXCEPT !.refilled = TRUE]
       ELSE hs[u]]

(* Variant: the lock is still held after the with block. *)
AfterWithKept(t) == t

(* Leaving "with self.lock" releases the lock. *)
AfterWith(t) == NoTask

(* DataCache.get: with self.lock *)
GetAcquire(t) ==
  /\ task[t].pc = "get_lock"
  /\ lock = NoTask
  /\ lock' = t
  /\ task' = [task EXCEPT ![t].pc = "get_body"]
  /\ UNCHANGED <<sample, df_clients, refresher, now, cache, spreadsheet, remote, changes, loads, hist>>

(* DataCache.get: the body under the lock, and the release. *)
GetBody(t) ==
  LET key == task[t].cache_key
      res == GetResult(cache, key, now)
      within == hist[t].prev.valid /\ now - hist[t].prev.setAt < ttl
      h == [hist[t] EXCEPT
              !.got = IF res # None THEN "hit"
                      ELSE IF HasEntry(cache, key) THEN "stale" ELSE "miss",
              !.prev = IF within THEN [hist[t].prev EXCEPT !.setAt = -1] ELSE NoPrev,
              !.touched = within /\ hist[t].touched,
              !.prevChanged = within /\ hist[t].prevChanged,
              !.shared = res # None]
  IN
  /\ task[t].pc = "get_body"
  /\ lock = t
  /\ cache' = GetCache(cache, key, now)
  /\ lock' = AfterWith(t)
  /\ task' = [task EXCEPT ![t].pc = "after_get", ![t].cached_data = res]
  /\ hist' = IF cache' # cache THEN Touch(t, key, h) ELSE [hist EXCEPT ![t] = h]
  /\ UNCHANGED <<sample, df_clients, refresher, now, spreadsheet, remote, changes, loads>>

(* DataCache.set: with self.lock *)
SetAcquire(t) ==
  /\ task[t].pc = "set_lock"
  /\ lock = NoTask
  /\ lock' = t
  /\ task' = [task EXCEPT ![t].pc = "set_body"]
  /\ UNCHANGED <<sample, df_clients, refresher, now, cache, spreadsheet, remote, changes, loads, hist>>

(* DataCache.set: the body under the lock, and the release. *)
SetBody(t) ==
  LET key == task[t].cache_key IN
  /\ task[t].pc = "set_body"
  /\ lock = t
  /\ cache' = CacheSet(cache, key, task[t].df.val, now)
  /\ lock' = AfterWith(t)
  /\ task' = [task EXCEPT ![t].pc = "load_return"]
  /\ hist' = Refill(t, key,
                Touch(t, key, [hist[t] EXCEPT !.sets = hist[t].sets + 1,
                                              !.setAt = now,
                                              !.touched = FALSE,
                                              !.shared = TRUE]))
  /\ UNCHANGED <<sample, df_clients, refresher, now, spreadsheet, remote, changes, loads>>

(* --------------------- fetch_worksheet_with_retry ---------------------- *)
(* Variant: the exponent is one too high. *)
wait_timeNext(attempt) == BackoffBase ^ (attempt + 1)

(* wait_time = 2 ** attempt *)
wait_time(attempt) == BackoffBase ^ attempt

(* if attempt < max_retries - 1: log and sleep; else: log only *)
SleepsAfter(attempt) == attempt < max_retries - 1

(* return from load_sensor_data: the frame is gone, the result stays. *)
Return(t, value) ==
  [IdleTask EXCEPT !.pc = "done", !.cache_key = task[t].cache_key, !.ret = value]

(* Variant: the last error is raised again when the attempts are used up. *)
LoopHeadRaises(t, attempt) ==
  IF attempt < max_retries
    THEN [task[t] EXCEPT !.pc = "in_call", !.attempt = attempt, !.wake = 0]
    ELSE [IdleTask EXCEPT !.pc = "raised", !.cache_key = task[t].cache_key]

(* Variant: range(max_retries + 1), one attempt too many. *)
LoopHeadExtra(t, attempt) ==
  IF attempt < max_retries + 1
    THEN [task[t] EXCEPT !.pc = "in_call", !.attempt = attempt, !.wake = 0]
    ELSE Return(t, None)

(* Variant: made-up readings stand in for the data the retries did not get. *)
LoopHeadDummy(t, attempt) ==
  IF attempt < max_retries
    THEN [task[t] EXCEPT !.pc = "in_call", !.attempt = attempt, !.wake = 0]
    ELSE Return(t, Some(CHOOSE d \in DummyFrames(now) : TRUE))

(* for attempt in range(max_retries): the provider is called once more, or
   the loop is over, fetch returns None and so does load (STEP 3). *)
LoopHead(t, attempt) ==
  IF attempt < max_retries
    THEN [task[t] EXCEPT !.pc = "in_call", !.attempt = attempt, !.wake = 0]
    ELSE Return(t, None)

(* Variants: WorksheetNotFound falls into the general except clause; an
   empty list of records is retried like an error; the frame is cached and
   returned unsorted. *)
OnOutcomeRetriesNotFound(t, o, df) ==
  CASE o.kind = "records" ->
         IF o.records # <<>>
           THEN [task[t] EXCEPT !.pc = "set_lock", !.df = Some(df)]
           ELSE Return(t, None)
    [] OTHER ->
         IF SleepsAfter(task[t].attempt)
           THEN [task[t] EXCEPT !.pc = "sleeping",
                                !.wake = now + wait_time(task[t].attempt)]
           ELSE LoopHead(t, task[t].attempt + 1)

OnOutcomeRetriesEmpty(t, o, df) ==
  CASE o.kind = "records" /\ o.records # <<>> ->
         [task[t] EXCEPT !.pc = "set_lock", !.df = Some(df)]
    [] o.kind = "WorksheetNotFound" -> Return(t, None)
    [] OTHER ->
         IF SleepsAfter(task[t].attempt)
           THEN [task[t] EXCEPT !.pc = "sleeping",
                                !.wake = now + wait_time(task[t].attempt)]
           ELSE LoopHead(t, task[t].attempt + 1)

OnOutcomeNoSort(t, o, df) ==
  CASE o.kind = "records" ->
         IF o.records # <<>>
           THEN [task[t] EXCEPT
                   !.pc = "set_lock",
                   !.df = Some([i \in 1..Len(o.records) |->
                                  ConvertRow(EnsureColumns(o.records[i]))])]
           ELSE Return(t, None)
    [] o.kind = "WorksheetNotFound" -> Return(t, None)
    [] OTHER ->
         IF SleepsAfter(task[t].attempt)
           THEN [task[t] EXCEPT !.pc = "sleeping",
                                !.wake = now + wait_time(task[t].attempt)]
           ELSE LoopHead(t, task[t].attempt + 1)

(* What the try block and its two except clauses do with one outcome of the
   provider call, and load_sensor_data with what fetch returns (STEP 3, 4). *)
OnOutcome(t, o, df) ==
  CASE o.kind = "records" ->
         IF o.records # <<>>
           THEN [task[t] EXCEPT !.pc = "set_lock", !.df = Some(df)]
           ELSE Return(t, None)
    [] o.kind = "WorksheetNotFound" -> Return(t, None)
    [] OTHER ->
         IF SleepsAfter(task[t].attempt)
           THEN [task[t] EXCEPT !.pc = "sleeping",
                                !.wake = now + wait_time(task[t].attempt)]
           ELSE LoopHead(t, task[t].attempt + 1)

(* The provider call returns or raises. *)
ProviderReply(t) ==
  /\ task[t].pc = "in_call"
  /\ \E o \in ProviderOutcomes(remote[task[t].cache_key]) :
     \E df \in FramesOf(o) :
       LET next == OnOutcome(t, o, df) IN
       /\ task' = [task EXCEPT ![t] = next]
       /\ hist' = [hist EXCEPT ![t] = Settle(t, next,
                     [hist[t] EXCEPT
                        !.last = o.kind,
                        !.replyAt = now,
                        !.waits = IF next.pc = "sleeping"
                                    THEN Append(hist[t].waits, next.wake - now)
                                    ELSE hist[t].waits,
                        !.calls = IF next.pc = "in_call" THEN hist[t].calls + 1
                                  ELSE hist[t].calls])]
  /\ UNCHANGED <<sample, df_clients, refresher, now, cache, lock, spreadsheet, remote, changes, loads>>

(* time.sleep(wait_time) is over: the next iteration of the loop. *)
Wake(t) ==
  LET next == LoopHead(t, task[t].attempt + 1) IN
  /\ task[t].pc = "sleeping"
  /\ now >= task[t].wake
  /\ task' = [task EXCEPT ![t] = next]
  /\ hist' = [hist EXCEPT ![t] = Settle(t, next,
                [hist[t] EXCEPT !.calls = IF next.pc = "in_call" THEN hist[t].calls + 1
                                          ELSE hist[t].calls])]
  /\ UNCHANGED <<sample, df_clients, refresher, now, cache, lock, spreadsheet, remote, changes, loads>>

(* ------------------------- load_sensor_data ---------------------------- *)
(* A thread calls load_sensor_data(loc_name, booth_name): the cache key is
   built and data_cache.get is called. *)
LoadStart(t) ==
  /\ task[t].pc \in {"idle", "done"}
  /\ loads[t] < LoadsOf(t)
  /\ now <= MaxTime
  /\ loads' = [loads EXCEPT ![t] = loads[t] + 1]
  /\ \E p \in Pairs :
       LET key == CacheKey(p[1], p[2])
           again == /\ task[t].pc = "done"
                    /\ hist[t].sets = 1
                    /\ key = task[t].cache_key
           empty == /\ task[t].pc = "done"
                    /\ hist[t].last = "records" /\ hist[t].sets = 0
                    /\ key = task[t].cache_key
       IN
       /\ task' = [task EXCEPT ![t] =
                     [IdleTask EXCEPT !.pc = "get_lock", !.cache_key = key]]
       /\ hist' = [hist EXCEPT ![t] =
                     [FreshHist EXCEPT
                        !.prevEmpty = empty,
                        !.prevChanged = again /\ hist[t].changed,
                        !.touched = again /\ hist[t].touched,
                        !.prev = IF again
                                   THEN [valid |-> TRUE, ret |-> task[t].ret,
                                         setAt |-> hist[t].setAt]
                                   ELSE NoPrev]]
  /\ UNCHANGED <<sample, df_clients, refresher, now, cache, lock, spreadsheet, remote, changes>>

(* Variant: a load that missed looks into the cache once more and takes what
   another thread has put there meanwhile, instead of fetching. *)
AfterGetPeeks(t) ==
  /\ task[t].pc = "after_get"
  /\ IF task[t].cached_data # None
       THEN /\ task' = [task EXCEPT ![t] = Return(t, task[t].cached_data)]
            /\ hist' = [hist EXCEPT ![t] = AtReturn(t, hist[t])]
       ELSE IF GetResult(cache, task[t].cache_key, now) # None
         THEN /\ task' = [task EXCEPT ![t] =
                           Return(t, GetResult(cache, task[t].cache_key, now))]
              /\ hist' = [hist EXCEPT ![t] = AtReturn(t, hist[t])]
       ELSE IF spreadsheet = "None"
         THEN /\ \E d \in DummyFrames(now) :
                   task' = [task EXCEPT ![t] = Return(t, Some(d))]
              /\ hist' = [hist EXCEPT ![t] = AtReturn(t, hist[t])]
         ELSE /\ task' = [task EXCEPT ![t] = LoopHead(t, 0)]
              /\ hist' = [hist EXCEPT ![t].calls = 1]
  /\ UNCHANGED <<sample, df_clients, refresher, now, cache, lock, spreadsheet, remote, changes, loads>>

(* STEP 1 to STEP 3: return the cached frame; without a connection return
   dummy data; else enter fetch_worksheet_with_retry, whose own test of the
   connection passes, and call the provider for the first time. *)
AfterGet(t) ==
  /\ task[t].pc = "after_get"
  /\ IF task[t].cached_data # None
       THEN /\ task' = [task EXCEPT ![t] = Return(t, task[t].cached_data)]
            /\ hist' = [hist EXCEPT ![t] = AtReturn(t, hist[t])]
       ELSE IF spreadsheet = "None"
         THEN /\ \E d \in DummyFrames(now) :
                   task' = [task EXCEPT ![t] = Return(t, Some(d))]
              /\ hist' = [hist EXCEPT ![t] = AtReturn(t, hist[t])]
         ELSE /\ task' = [task EXCEPT ![t] = LoopHead(t, 0)]
              /\ hist' = [hist EXCEPT ![t].calls = 1]
  /\ UNCHANGED <<sample, df_clients, refresher, now, cache, lock, spreadsheet, remote, changes, loads>>

(* STEP 5 is done: return df *)
LoadReturn(t) ==
  /\ task[t].pc = "load_return"
  /\ task' = [task EXCEPT ![t] = Return(t, task[t].df)]
  /\ hist' = [hist EXCEPT ![t] = AtReturn(t, hist[t])]
  /\ UNCHANGED <<sample, df_clients, refresher, now, cache, lock, spreadsheet, remote, changes, loads>>

(* ---------------------------- environment ------------------------------ *)
(* The ends of the sleeps in progress. *)
WakeTimes == { task[t].wake : t \in { u \in Tasks : task[u].pc = "sleeping" } }

Tick ==
  /\ \E i \in Instants \cup { w \in WakeTimes : w > MaxTime } :
       /\ i > now
       /\ now' = i
  /\ UNCHANGED <<sample, df_clients, refresher, cache, lock, spreadsheet, remote, changes, loads, task, hist>>

(* The worksheets that are edited while the program runs. *)
EditedKeys == { CacheKey(<<"A", "B">>, <<"C">>) }

(* Somebody edits a worksheet of the remote spreadsheet. *)
RemoteChange ==
  /\ changes < MaxRemoteChanges
  /\ \E k \in EditedKeys, r \in RemoteStates :
       /\ r # remote[k]
       /\ remote' = [remote EXCEPT ![k] = r]
       /\ hist' = [u \in Tasks |->
                     IF task[u].cache_key = k
                       THEN [hist[u] EXCEPT !.changed = MayLoadAgain(u),
                                            !.prevChanged = hist[u].prev.valid]
                       ELSE hist[u]]
  /\ changes' = changes + 1
  /\ UNCHANGED <<sample, df_clients, refresher, now, cache, lock, spreadsheet, loads, task>>

Next ==
  \/ \E t \in Tasks : LoadStart(t)
  \/ \E t \in Tasks : GetAcquire(t)
  \/ \E t \in Tasks : GetBody(t)
  \/ \E t \in Tasks : AfterGet(t)
  \/ \E t \in Tasks : ProviderReply(t)
  \/ \E t \in Tasks : Wake(t)
  \/ \E t \in Tasks : SetAcquire(t)
  \/ \E t \in Tasks : SetBody(t)
  \/ \E t \in Tasks : LoadReturn(t)
  \/ Tick
  \/ RemoteChange

Spec == Init /\ [][Next]_vars

(* Parallel first loads: every thread loads once, the remote spreadsheet
   is left as it is.  A thread that can take a step eventually takes it (the
   scheduler runs it, the provider answers its call), and time passes. *)
ThreadStep(t) ==
  \/ GetAcquire(t) \/ GetBody(t) \/ AfterGet(t) \/ ProviderReply(t)
  \/ Wake(t) \/ SetAcquire(t) \/ SetBody(t) \/ LoadReturn(t)

LoadOnce(t) == loads[t] = 0 /\ LoadStart(t)

NextParallel ==
  \/ \E t \in Tasks : LoadOnce(t)
  \/ \E t \in Tasks : ThreadStep(t)
  \/ Tick

LiveSpec ==
  /\ Init
  /\ [][NextParallel]_vars
  /\ \A t \in Tasks : WF_vars(ThreadStep(t))
  /\ WF_vars(Tick)

(* ---------------------- background_cache_refresh ---------------------- *)
(* The thread of Tasks that runs background_cache_refresh. *)
Refresher == 1

(* time.sleep(0.5) on a clock read in whole seconds: the sleep ends within
   the second it began in, or in the next one. *)
PacingWholeSeconds == {0, 1}

(* while True: time.sleep(120) is over, refresh_all_booths() begins. *)
SweepStart ==
  /\ refresher.pc = "period_sleep"
  /\ now >= refresher.wake
  /\ refresher.sweeps < MaxSweeps
  /\ refresher' = [refresher EXCEPT !.pc = "next_row", !.index = 1,
                                     !.sweeps = refresher.sweeps + 1,
                                     !.log = <<>>, !.raised = FALSE,
                                     !.fetched = {}]
  /\ UNCHANGED <<sample, now, cache, lock, spreadsheet, remote, changes, loads, task,
                 hist, df_clients>>

(* refresh_all_booths returns and the thread is in time.sleep(120) again. *)
SweepOver(r) ==
  [r EXCEPT !.pc = "period_sleep", !.wake = now + RefreshPeriod, !.endAt = now]

(* Variant: the exception is not caught and ends the thread. *)
OnRaiseExits(r) == [r EXCEPT !.pc = "exited", !.raised = TRUE, !.endAt = now]

(* except Exception as e: logger.error(...): the for loop is left. *)
OnRaise(r) == [SweepOver(r) EXCEPT !.raised = TRUE]

(* Variant: the loop steps over a row. *)
NextIndexSkips(index) == index + 2

(* iterrows() yields the next row. *)
NextIndex(index) == index + 1

(* for index, row in df_clients.iterrows(): load_sensor_data(loc_name,
   booth_name) is called; building the cache key may raise. *)
RefreshCall ==
  /\ refresher.pc = "next_row"
  /\ refresher.index <= Len(df_clients)
  /\ LET row == df_clients[refresher.index]
         called == [refresher EXCEPT !.log = Append(refresher.log, refresher.index)]
     IN
     IF KeyRaises(row)
       THEN /\ refresher' = OnRaise(called)
            /\ UNCHANGED <<task, hist>>
       ELSE /\ refresher' = [called EXCEPT !.pc = "in_load"]
            /\ task' = [task EXCEPT ![Refresher] =
                          [IdleTask EXCEPT !.pc = "get_lock", !.cache_key = RowKey(row)]]
            /\ hist' = [hist EXCEPT ![Refresher] = FreshHist]
  /\ UNCHANGED <<sample, now, cache, lock, spreadsheet, remote, changes, loads, df_clients>>

(* load_sensor_data has returned: time.sleep(0.5) *)
RefreshLoaded ==
  /\ refresher.pc = "in_load"
  /\ task[Refresher].pc = "done"
  /\ \E d \in PacingWholeSeconds :
       refresher' = [refresher EXCEPT
                       !.pc = "pacing", !.wake = now + d,
                       !.fetched = IF hist[Refresher].calls >= 1
                                     THEN refresher.fetched \cup {task[Refresher].cache_key}
                                     ELSE refresher.fetched]
  /\ UNCHANGED <<sample, now, cache, lock, spreadsheet, remote, changes, loads, task,
                 hist, df_clients>>

(* time.sleep(0.5) is over: the next row of the for loop. *)
PacingOver ==
  /\ refresher.pc = "pacing"
  /\ now >= refresher.wake
  /\ refresher' = [refresher EXCEPT !.pc = "next_row",
                                     !.index = NextIndex(refresher.index)]
  /\ UNCHANGED <<sample, now, cache, lock, spreadsheet, remote, changes, loads, task,
                 hist, df_clients>>

(* The for loop has no row left: "Cache refresh completed successfully". *)
SweepEnd ==
  /\ refresher.pc = "next_row"
  /\ refresher.index > Len(df_clients)
  /\ refresher' = SweepOver(refresher)
  /\ UNCHANGED <<sample, now, cache, lock, spreadsheet, remote, changes, loads, task,
                 hist, df_clients>>

RefresherStep == SweepStart \/ RefreshCall \/ RefreshLoaded \/ PacingOver \/ SweepEnd

(* Time passes up to the end of a sleep in progress. *)
RefreshTick ==
  /\ \E w \in WakeTimes \cup
              (IF refresher.pc \in {"period_sleep", "pacing"} THEN {refresher.wake} ELSE {}) :
       /\ w > now
       /\ now' = w
  /\ UNCHANGED <<sample, cache, lock, spreadsheet, remote, changes, loads, task, hist,
                 df_clients, refresher>>

(* The refresh thread at work over one of the rosters, sweep after sweep.
   A thread that can take a step eventually takes it, and time passes. *)
RefreshInit ==
  /\ df_clients \in Rosters
  /\ refresher = RefresherStart
  /\ sample = NoSample
  /\ now = 0
  /\ cache = [k \in {} |-> None]
  /\ lock = NoTask
  /\ spreadsheet \in {"open", "None"}
  /\ remote = [k \in AllKeys |-> Worksheet(Rows1)]
  /\ changes = 0
  /\ loads = [t \in Tasks |-> 0]
  /\ task = [t \in Tasks |-> IdleTask]
  /\ hist = [t \in Tasks |-> FreshHist]

RefreshNext ==
  \/ SweepStart
  \/ RefreshCall
  \/ RefreshLoaded
  \/ PacingOver
  \/ SweepEnd
  \/ ThreadStep(Refresher)
  \/ RefreshTick

RefreshSpec ==
  /\ RefreshInit
  /\ [][RefreshNext]_vars
  /\ WF_vars(RefresherStep)
  /\ WF_vars(ThreadStep(Refresher))
  /\ WF_vars(RefreshTick)

(* ------------------------ STEP 4 taken alone --------------------------- *)
(* The lists of records STEP 4 is applied to: up to MaxRows rows of text
   cells; a worksheet has a timestamp and a co2_ppm column, or lacks one of
   the two.  An empty list never reaches STEP 4 ("if data"). *)
MaxRows == 3
Cells == {"1", "2", "x", ""}
Headers == {{"timestamp", "co2_ppm"}, {"timestamp"}, {"co2_ppm"}}
RecordLists ==
  UNION { [1..n -> [h -> Cells]] : n \in 1..MaxRows, h \in Headers }

SampleInit ==
  /\ df_clients = Roster1
  /\ refresher = RefresherStart
  /\ now = 0
  /\ cache = [k \in {} |-> None]
  /\ lock = NoTask
  /\ spreadsheet = "open"
  /\ remote = [k \in AllKeys |-> Worksheet(Rows1)]
  /\ changes = 0
  /\ loads = [t \in Tasks |-> 0]
  /\ task = [t \in Tasks |-> IdleTask]
  /\ hist = [t \in Tasks |-> FreshHist]
  /\ \E data \in RecordLists : sample = [data |-> data, df |-> None]

(* STEP 4 runs on the records and ends with a frame. *)
ApplyNormalize ==
  /\ sample.data # <<>>
  /\ sample.df = None
  /\ \E df \in Normalize(sample.data) : sample' = [sample EXCEPT !.df = Some(df)]
  /\ UNCHANGED <<now, cache, lock, spreadsheet, remote, changes, loads, task,
                 hist, df_clients, refresher>>

SampleNext == ApplyNormalize

SampleSpec == SampleInit /\ [][SampleNext]_vars

(* ---------------------- calculate_comfort_score ------------------------ *)
(* The sub-scores of the five metrics, as the if/elif chains give them. *)
TempScore(temp) ==
  IF 20 <= temp /\ temp <= 25 THEN 100
  ELSE IF (18 <= temp /\ temp < 20) \/ (25 < temp /\ temp <= 27) THEN 50
  ELSE 0

HumScore(hum) ==
  IF 40 <= hum /\ hum <= 50 THEN 100
  ELSE IF (30 <= hum /\ hum < 40) \/ (50 < hum /\ hum <= 60) THEN 50
  ELSE 0

Co2Score(co2) ==
  IF co2 <= 600 THEN 100
  ELSE IF co2 <= 1000 THEN 75
  ELSE IF co2 <= 2000 THEN 25
  ELSE 0

VocScore(voc) == IF voc <= 300 THEN 100 ELSE IF voc <= 500 THEN 50 ELSE 0

Pm25Score(pm25) == IF pm25 <= 12 THEN 100 ELSE IF pm25 <= 35 THEN 50 ELSE 0

(* The columns calculate_comfort_score reads, and the key each one's
   sub-score is stored under. *)
ScoreKeys ==
  [temp_c |-> "temp", humidity_pct |-> "hum", co2_ppm |-> "co2",
   voc |-> "voc", pm25_ugm3 |-> "pm25"]

ScoreOf(col, v) ==
  CASE col = "temp_c" -> TempScore(v)
    [] col = "humidity_pct" -> HumScore(v)
    [] col = "co2_ppm" -> Co2Score(v)
    [] col = "voc" -> VocScore(v)
    [] col = "pm25_ugm3" -> Pm25Score(v)

(* The dict scores: one entry for every metric with pd.notna(value). *)
scores(row) ==
  [key \in { ScoreKeys[col] : col \in { c \in DOMAIN ScoreKeys : row[c].ok } } |->
     LET col == CHOOSE c \in DOMAIN ScoreKeys : ScoreKeys[c] = key
     IN ScoreOf(col, row[col].n)]

(* sum(scores.values()) *)
RECURSIVE SumValues(_)
SumValues(f) ==
  IF DOMAIN f = {} THEN 0
  ELSE LET k == CHOOSE x \in DOMAIN f : TRUE
       IN f[k] + SumValues([x \in (DOMAIN f) \ {k} |-> f[x]])

(* A quotient num / den of two integers, kept exact. *)
Quotient(num, den) == [num |-> num, den |-> den]

(* Variant: the sum is divided by the number of metrics, present or not. *)
calculate_comfort_scoreOfFive(row) ==
  IF DOMAIN scores(row) = {} THEN Quotient(0, 1)
  ELSE Quotient(SumValues(scores(row)), Cardinality(DOMAIN ScoreKeys))

(* if not scores: return 0; return sum(scores.values()) / len(scores) *)
calculate_comfort_score(row) ==
  IF DOMAIN scores(row) = {} THEN Quotient(0, 1)
  ELSE Quotient(SumValues(scores(row)), Cardinality(DOMAIN scores(row)))

(* The readings the score is computed of: every metric missing (NaN) or one
   of a few values on, next to and between the limits of its scale. *)
Readings ==
  [temp_c : {NoValue} \cup { Val(v) : v \in {17, 18, 19, 20, 22, 25, 26, 27, 28} },
   humidity_pct : {NoValue} \cup { Val(v) : v \in {29, 30, 40, 45, 50, 51, 60, 61} },
   co2_ppm : {NoValue} \cup { Val(v) : v \in {500, 600, 601, 1000, 1001, 1500, 2000, 2001} },
   voc : {NoValue} \cup { Val(v) : v \in {200, 300, 301, 500, 501} },
   pm25_ugm3 : {NoValue} \cup { Val(v) : v \in {10, 12, 13, 35, 36} }]

ComfortInit ==
  /\ df_clients = Roster1
  /\ refresher = RefresherStart
  /\ now = 0
  /\ cache = [k \in {} |-> None]
  /\ lock = NoTask
  /\ spreadsheet = "open"
  /\ remote = [k \in AllKeys |-> Worksheet(Rows1)]
  /\ changes = 0
  /\ loads = [t \in Tasks |-> 0]
  /\ task = [t \in Tasks |-> IdleTask]
  /\ hist = [t \in Tasks |-> FreshHist]
  /\ \E row \in Readings : sample = [row |-> row, score |-> None]

(* comfy_score = calculate_comfort_score(latest) *)
ApplyComfort ==
  /\ sample.score = None
  /\ sample' = [sample EXCEPT !.score = Some(calculate_comfort_score(sample.row))]
  /\ UNCHANGED <<now, cache, lock, spreadsheet, remote, changes, loads, task,
                 hist, df_clients, refresher>>

ComfortNext == ApplyComfort

ComfortSpec == ComfortInit /\ [][ComfortNext]_vars

(* ------------------ utilization: dashboard, location_view --------------- *)
(* A pir_state cell: text, here a sequence of words and blanks. *)
RECURSIVE lstrip(_)
lstrip(text) == IF text # <<>> /\ text[1] = " " THEN lstrip(Tail(text)) ELSE text

RECURSIVE rstrip(_)
rstrip(text) ==
  IF text # <<>> /\ text[Len(text)] = " "
    THEN rstrip(SubSeq(text, 1, Len(text) - 1))
    ELSE text

(* .astype(str).str.strip() *)
strip(text) == rstrip(lstrip(text))

(* df.dropna(subset=[col]) for the text column and for a numeric column. *)
DropNaText(rows) == SelectSeq(rows, LAMBDA r : r.pir_state # None)
DropNaCount(rows) == SelectSeq(rows, LAMBDA r : r.occupancy_count.ok)

(* df[df['pir_state'] ... == 'Occupied'].shape[0] *)
occupied_count(rows) ==
  Len(SelectSeq(rows, LAMBDA r : strip(r.pir_state.val) = <<"Occupied">>))

(* The sum behind cap_util_df['occupancy_count'].mean() *)
RECURSIVE SumOfCounts(_)
SumOfCounts(rows) ==
  IF rows = <<>> THEN 0 ELSE rows[1].occupancy_count.n + SumOfCounts(Tail(rows))

(* dashboard: temporal_utilization of the filtered readings *)
temporal_utilization(filtered_df) ==
  LET temp_util_df == DropNaText(filtered_df)
      total_count == Len(temp_util_df)
  IN IF temp_util_df # <<>> /\ total_count > 0
       THEN Quotient(occupied_count(temp_util_df) * 100, total_count)
       ELSE Quotient(0, 1)

(* Variant: max_occ is not tested before the division. *)
capacity_utilizationUnguarded(filtered_df, max_occ) ==
  LET cap_util_df ==
        SelectSeq(DropNaCount(filtered_df), LAMBDA r : r.occupancy_count.n > 0)
      total == SumOfCounts(cap_util_df)
  IN IF cap_util_df # <<>>
       THEN Quotient(total * 100, Len(cap_util_df) * max_occ)
       ELSE Quotient(0, 1)

(* dashboard: capacity_utilization = avg_occupancy / max_occ * 100 with
   avg_occupancy the mean of the positive counts. *)
capacity_utilization(filtered_df, max_occ) ==
  LET cap_util_df ==
        SelectSeq(DropNaCount(filtered_df), LAMBDA r : r.occupancy_count.n > 0)
      total == SumOfCounts(cap_util_df)
  IN IF cap_util_df # <<>> /\ max_occ > 0
       THEN Quotient(total * 100, Len(cap_util_df) * max_occ)
       ELSE Quotient(0, 1)

(* location_view: utilization_pct, or nothing when no reading has a
   pir_state (no entry is appended to utilization_data). *)
utilization_pct(filtered_df) ==
  LET kept == DropNaText(filtered_df)
      total_count == Len(kept)
  IN IF kept # <<>>
       THEN Some(IF total_count > 0
                   THEN Quotient(occupied_count(kept) * 100, total_count)
                   ELSE Quotient(0, 1))
       ELSE None

(* The readings of a booth that fall into the date range, at least one (the
   views skip a booth without any): up to MaxReadings rows. *)
MaxReadings == 4
PirStates ==
  {None, Some(<<"Occupied">>), Some(<<"occupied", " ">>), Some(<<"Vacant">>)}
Counts == {NoValue, Val(0), Val(2), Val(4)}
FilteredFrames ==
  UNION { [1..n -> [pir_state : PirStates, occupancy_count : Counts]] :
            n \in 1..MaxReadings }

(* booth_row['max_occupancy'] *)
MaxOccupancies == {-1, 0, 10}

UtilInit ==
  /\ df_clients = Roster1
  /\ refresher = RefresherStart
  /\ now = 0
  /\ cache = [k \in {} |-> None]
  /\ lock = NoTask
  /\ spreadsheet = "open"
  /\ remote = [k \in AllKeys |-> Worksheet(Rows1)]
  /\ changes = 0
  /\ loads = [t \in Tasks |-> 0]
  /\ task = [t \in Tasks |-> IdleTask]
  /\ hist = [t \in Tasks |-> FreshHist]
  /\ \E filtered_df \in FilteredFrames, max_occ \in MaxOccupancies :
       sample = [filtered_df |-> filtered_df, max_occ |-> max_occ,
                 view |-> "none", out |-> None]

(* dashboard: one booth's temporal and capacity utilization *)
DashboardUtilization ==
  /\ sample.view = "none"
  /\ sample' = [sample EXCEPT
       !.view = "dashboard",
       !.out = Some([temporal_util |-> temporal_utilization(sample.filtered_df),
                     capacity_util |->
                       capacity_utilization(sample.filtered_df, sample.max_occ)])]
  /\ UNCHANGED <<now, cache, lock, spreadsheet, remote, changes, loads, task,
                 hist, df_clients, refresher>>

(* location_view: one booth's utilization *)
LocationUtilization ==
  /\ sample.view = "none"
  /\ sample' = [sample EXCEPT
       !.view = "location_view",
       !.out = utilization_pct(sample.filtered_df)]
  /\ UNCHANGED <<now, cache, lock, spreadsheet, remote, changes, loads, task,
                 hist, df_clients, refresher>>

UtilNext == DashboardUtilization \/ LocationUtilization

UtilSpec == UtilInit /\ [][UtilNext]_vars

(* ------------------------ DataCache.is_expired ------------------------- *)
(* Variant: an entry of age ttl is not expired yet. *)
is_expiredStrict(c, key, time) ==
  IF ~HasEntry(c, key) THEN TRUE ELSE time - c[key].timestamp > ttl

(* if key not in self.cache: return True; return age >= self.ttl *)
is_expired(c, key, time) ==
  IF ~HasEntry(c, key) THEN TRUE ELSE time - c[key].timestamp >= ttl

(* The calls of is_expired in one run of the model. *)
MaxExpiryChecks == 1

(* No call of is_expired yet. *)
NoCheck == [n |-> 0, key |-> <<>>, at |-> 0, expired |-> FALSE]

ExpiryInit ==
  /\ df_clients = Roster1
  /\ refresher = RefresherStart
  /\ now = 0
  /\ cache = [k \in {} |-> None]
  /\ lock = NoTask
  /\ spreadsheet \in {"open", "None"}
  /\ remote = [k \in AllKeys |-> Worksheet(Rows1)]
  /\ changes = 0
  /\ loads = [t \in Tasks |-> 0]
  /\ task = [t \in Tasks |-> IdleTask]
  /\ hist = [t \in Tasks |-> FreshHist]
  /\ sample = NoCheck

(* data_cache.is_expired(key): the whole with block, entered when the lock
   is free; the mapping is only read. *)
IsExpiredCall(key) ==
  /\ lock = NoTask
  /\ sample.n < MaxExpiryChecks
  /\ sample' = [n |-> sample.n + 1, key |-> key, at |-> now,
                expired |-> is_expired(cache, key, now)]
  /\ UNCHANGED <<now, cache, lock, spreadsheet, remote, changes, loads, task,
                 hist, df_clients, refresher>>

ExpiryNext ==
  \/ \E t \in Tasks : LoadOnce(t)
  \/ \E t \in Tasks : ThreadStep(t)
  \/ Tick
  \/ \E key \in AllKeys : IsExpiredCall(key)

ExpirySpec == ExpiryInit /\ [][ExpiryNext]_vars

(* ======================== properties of the code ======================= *)
Key(t) == task[t].cache_key
Pc(t) == task[t].pc

(* The step in which thread t runs the body of DataCache.get. *)
GetStep(t) == Pc(t) = "get_body" /\ task'[t].pc = "after_get"

(* The step in which thread t runs the body of DataCache.set. *)
SetStep(t) == Pc(t) = "set_body" /\ task'[t].pc = "load_return"

(* The step in which load_sensor_data returns. *)
ReturnStep(t) == Pc(t) # "done" /\ task'[t].pc = "done"

(* Every key but the given one keeps its entry, or its absence. *)
OthersKept(key) ==
  /\ (DOMAIN cache') \ {key} = (DOMAIN cache) \ {key}
  /\ \A k \in (DOMAIN cache) \ {key} : cache'[k] = cache[k]

(* The frames the provider's worksheets normalise to. *)
(* x is a frame that STEP 4 can make of the records data. *)
IsFrameOf(x, data) == x # None /\ x.val \in Normalize(data)

ValidFrames == UNION { Normalize(r) : r \in {Rows1, Rows2} }

(* A get that finds a fresh entry, and the load after it. *)
C1_HitAct ==
  \A t \in Tasks :
    /\ (GetStep(t) /\ HasEntry(cache, Key(t)) /\ now - cache[Key(t)].timestamp < ttl)
         => /\ cache' = cache
            /\ task'[t].cached_data = Some(cache[Key(t)].data)
            /\ hist'[t].got = "hit"
    /\ (hist[t].got = "hit" /\ Pc(t) = "after_get" /\ task'[t] # task[t])
         => /\ ReturnStep(t)
            /\ task'[t].ret = task[t].cached_data
            /\ cache' = cache

C1_HitInv ==
  \A t \in Tasks :
    hist[t].got = "hit" => hist[t].calls = 0 /\ hist[t].sets = 0 /\ hist[t].last = "none"

(* C1: when get finds an entry of age < ttl, it returns that entry's series
   and leaves the whole mapping as it is; the load then returns that series
   and has called the provider zero times. *)
C1_FreshHitNoFetch == [][C1_HitAct]_vars /\ []C1_HitInv

C1_Witness ==
  \E t \in Tasks :
    /\ Pc(t) = "done" /\ hist[t].got = "hit"
    /\ task[t].ret # None
    /\ HasEntry(cache, Key(t)) /\ task[t].ret = Some(cache[Key(t)].data)

(* A get that finds a stale entry, and the load after it. *)
C2_StaleAct ==
  /\ \A t \in Tasks :
       /\ (GetStep(t) /\ HasEntry(cache, Key(t)) /\ now - cache[Key(t)].timestamp >= ttl)
            => /\ task'[t].cached_data = None
               /\ ~HasEntry(cache', Key(t))
               /\ OthersKept(Key(t))
               /\ hist'[t].got = "stale"
       /\ (hist[t].got = "stale" /\ Pc(t) = "after_get" /\ task'[t] # task[t]
             /\ spreadsheet = "open")
            => task'[t].pc = "in_call" /\ hist'[t].calls = 1
  /\ \A k \in AllKeys :
       (~HasEntry(cache, k) /\ HasEntry(cache', k))
         => \E u \in Tasks : SetStep(u) /\ Key(u) = k

C2_StaleInv ==
  \A t \in Tasks :
    (hist[t].got = "stale" /\ Pc(t) # "after_get" /\ spreadsheet = "open")
      => hist[t].calls >= 1

(* C2: when get finds an entry of age >= ttl (age = ttl included), it
   returns None and deletes that key's entry and no other; the key stays
   absent until a set; with the connection open the load goes on to call
   the provider. *)
C2_StaleEvictedAndRefetched == [][C2_StaleAct]_vars /\ []C2_StaleInv

C2_Witness ==
  \E t \in Tasks :
    /\ hist[t].got = "stale" /\ Pc(t) = "in_call"
    /\ ~HasEntry(cache, Key(t))
    /\ \E k \in AllKeys : k # Key(t) /\ HasEntry(cache, k)

(* C3 (as claimed): a fetch whose every provider call raised has called the
   provider max_retries times, has slept 1, 2 and 4 seconds, and gives None. *)
C3_AsClaimed ==
  \A t \in Tasks :
    (Pc(t) = "done" /\ hist[t].last = "Exception")
      => /\ hist[t].calls = max_retries
         /\ hist[t].waits = <<1, 2, 4>>
         /\ task[t].ret = None

(* C4: once the provider has reported WorksheetNotFound the fetch is over:
   None is returned at once, with no sleep after that attempt and no further
   call (the sleeps are those of the failed attempts before it), so a
   not-found on the first attempt means exactly one call. *)
C4_NotFoundFailsFast ==
  \A t \in Tasks :
    hist[t].last = "WorksheetNotFound"
      => /\ Pc(t) = "done"
         /\ task[t].ret = None
         /\ hist[t].calls = Len(hist[t].waits) + 1
         /\ (hist[t].waits = <<>> => hist[t].calls = 1)

C4_Witness ==
  \E t \in Tasks :
    hist[t].last = "WorksheetNotFound" /\ hist[t].calls = 1 /\ Pc(t) = "done"

(* A load whose fetch gave nothing. *)
C5_FailInv ==
  \A t \in Tasks :
    /\ Pc(t) # "raised"
    /\ (Pc(t) = "done" /\ hist[t].last \in {"WorksheetNotFound", "Exception"})
         => task[t].ret = None /\ hist[t].sets = 0

C5_FailAct ==
  \A t \in Tasks :
    (Pc(t) \in {"after_get", "in_call", "sleeping"} /\ task'[t] # task[t])
      => cache' = cache

(* C5: a load that missed the cache and whose fetch ended in not-found or in
   used-up retries returns None, raises nothing and has written nothing to
   the cache: none of its steps after the get changes the mapping. *)
C5_FailureLeavesCache == [][C5_FailAct]_vars /\ []C5_FailInv

C5_Witness ==
  \E t \in Tasks :
    /\ Pc(t) = "done" /\ hist[t].last = "Exception" /\ hist[t].got = "stale"
    /\ task[t].ret = None /\ hist[t].calls = max_retries

(* What the load of thread t does once the provider has returned rows. *)
C6_RowsAct ==
  \A t \in Tasks :
    /\ (Pc(t) = "in_call" /\ task'[t].pc = "set_lock")
         => /\ IsFrameOf(task'[t].df, remote[Key(t)].records)
            /\ cache' = cache
    /\ SetStep(t)
         => /\ HasEntry(cache', Key(t))
            /\ cache'[Key(t)] = [data |-> task[t].df.val, timestamp |-> now]
            /\ task'[t].df = task[t].df
    /\ (Pc(t) = "load_return" /\ task'[t] # task[t])
         => /\ ReturnStep(t)
            /\ task'[t].ret = task[t].df
            /\ cache' = cache

(* The entry at the moment the load returns, and afterwards, as long as no
   other thread has changed it. *)
C6_RowsInv ==
  \A t \in Tasks :
    /\ Pc(t) = "load_return"
         => /\ task[t].df # None /\ task[t].df.val \in ValidFrames
            /\ hist[t].sets = 1
            /\ hist[t].replyAt >= 0 /\ hist[t].setAt >= hist[t].replyAt
            /\ ~hist[t].touched
                 => /\ HasEntry(cache, Key(t))
                    /\ cache[Key(t)] = [data |-> task[t].df.val,
                                        timestamp |-> hist[t].setAt]
    /\ (Pc(t) = "done" /\ hist[t].sets = 1 /\ hist[t].setAt >= 0 /\ ~hist[t].touched)
         => /\ HasEntry(cache, Key(t))
            /\ cache[Key(t)] = [data |-> task[t].ret.val, timestamp |-> hist[t].setAt]

(* C6: a load that missed and got rows normalises them, then sets the cache,
   then returns that same frame; when it returns, and unless another thread
   changed the entry, the key's entry holds the returned frame and the time
   of the set, which is not before the provider's answer. *)
C6_RowsCachedThenReturned == [][C6_RowsAct]_vars /\ []C6_RowsInv

C6_Witness ==
  \E t \in Tasks :
    /\ Pc(t) = "load_return" /\ ~hist[t].touched /\ hist[t].got = "stale"
    /\ hist[t].setAt > hist[t].replyAt
    /\ cache[Key(t)] = [data |-> task[t].df.val, timestamp |-> hist[t].setAt]

(* Every entry of the cache, every frame a get has handed out and every
   frame a load has returned is a whole normalised frame of the provider. *)
C7_Safe ==
  spreadsheet = "open" =>
    /\ \A k \in DOMAIN cache :
         /\ DOMAIN cache[k] = {"data", "timestamp"}
         /\ cache[k].data \in ValidFrames
         /\ cache[k].timestamp \in 0..now
    /\ \A t \in Tasks :
         /\ task[t].cached_data # None => task[t].cached_data.val \in ValidFrames
         /\ (Pc(t) = "done" /\ (hist[t].got = "hit" \/ hist[t].last = "records"))
              => IsFrameOf(task[t].ret, remote[Key(t)].records)

(* C7: threads loading in parallel, from an empty cache on, against a
   provider that has rows: every load returns, a load the provider answered
   (or the cache served) returns the normalisation of the provider's rows,
   and no get ever sees anything but a whole entry. *)
C7_ParallelLoadsReturnValid ==
  /\ []C7_Safe
  /\ \A t \in Tasks : (Pc(t) = "get_lock") ~> (Pc(t) = "done")

C7_Witness ==
  \E t \in Tasks, u \in Tasks :
    /\ t # u /\ Key(t) = Key(u)
    /\ Pc(t) = "done" /\ Pc(u) = "done"
    /\ hist[t].got = "miss" /\ hist[u].got = "miss"
    /\ hist[t].sets = 1 /\ hist[u].sets = 1
    /\ IsFrameOf(task[t].ret, Rows1) /\ task[u].ret = task[t].ret

(* C8: the lock is held exactly while a thread is inside the body of get or
   of set, never during a provider call or a sleep, and its holder can
   always finish the body; so the lock is free again after one step of the
   holder whatever the fetching threads do. *)
C8_LockOnlyAroundMapping ==
  \A t \in Tasks :
    /\ lock = t <=> Pc(t) \in {"get_body", "set_body"}
    /\ Pc(t) \in {"in_call", "sleeping"} => lock # t
    /\ lock = t => ENABLED (GetBody(t) \/ SetBody(t))

C8_Witness ==
  \E t \in Tasks, u \in Tasks :
    /\ t # u
    /\ Pc(t) \in {"in_call", "sleeping"}
    /\ lock = u /\ Pc(u) = "set_body"

(* Every step that creates or changes an entry is the body of one set and
   writes that set's frame together with that set's time. *)
C9_SetAct ==
  /\ \A t \in Tasks :
       SetStep(t)
         => /\ HasEntry(cache', Key(t))
            /\ cache'[Key(t)] = [data |-> task[t].df.val, timestamp |-> now]
            /\ OthersKept(Key(t))
  /\ \A k \in AllKeys :
       (HasEntry(cache', k) /\ (HasEntry(cache, k) => cache'[k] # cache[k]))
         => \E t \in Tasks :
              /\ SetStep(t) /\ Key(t) = k
              /\ cache'[k] = [data |-> task[t].df.val, timestamp |-> now]

C9_WholeEntries ==
  \A k \in DOMAIN cache :
    /\ DOMAIN cache[k] = {"data", "timestamp"}
    /\ cache[k].timestamp <= now

(* C9: set overwrites whatever the key held with its own frame and its own
   timestamp, so after any interleaving of sets the entry is the pair of the
   set that took the lock last; no entry lacks a field or joins the frame of
   one set with the time of another. *)
C9_LastSetWins == [][C9_SetAct]_vars /\ []C9_WholeEntries

C9_Witness ==
  \E t \in Tasks, u \in Tasks :
    /\ t # u /\ Key(t) = Key(u)
    /\ Pc(t) = "load_return" /\ Pc(u) \in {"load_return", "done"}
    /\ hist[u].sets = 1 /\ hist[u].touched
    /\ task[u].ret # task[t].df
    /\ cache[Key(t)] = [data |-> task[t].df.val, timestamp |-> hist[t].setAt]

(* C10 (as claimed): a thread's second load of a key, whose get comes within
   ttl of the first load's set, with the key's worksheet not edited since the
   first load began, returns what the first load returned. *)
C10_AsClaimed ==
  \A t \in Tasks :
    (Pc(t) = "done" /\ hist[t].prev.valid /\ ~hist[t].prevChanged)
      => task[t].ret = hist[t].prev.ret

(* C10 (amended): the same, provided no other thread changed the key's
   entry between the first load's set and the second load's get. *)
C10_RepeatLoadSameSeries ==
  \A t \in Tasks :
    (Pc(t) = "done" /\ hist[t].prev.valid /\ ~hist[t].prevChanged /\ ~hist[t].touched)
      => task[t].ret = hist[t].prev.ret

C10_Witness ==
  \E t \in Tasks :
    /\ Pc(t) = "done" /\ hist[t].prev.valid
    /\ ~hist[t].prevChanged /\ ~hist[t].touched
    /\ hist[t].got = "hit"
    /\ task[t].ret # None /\ task[t].ret = hist[t].prev.ret

(* C11 (as claimed): whatever a load returns that is not None is a
   normalised frame of the provider's rows, taken from the cache or fetched
   by this call; with no connection to the spreadsheet a load returns None. *)
C11_AsClaimed ==
  \A t \in Tasks :
    (Pc(t) = "done" /\ task[t].ret # None)
      => /\ spreadsheet = "open"
         /\ task[t].ret.val \in ValidFrames
         /\ hist[t].got = "hit" \/ hist[t].last = "records"

(* The four ways load_sensor_data returns. *)
C11_ReturnAct ==
  \A t \in Tasks :
    /\ (Pc(t) = "in_call" /\ task'[t].pc = "set_lock")
         => IsFrameOf(task'[t].df, remote[Key(t)].records)
    /\ ReturnStep(t)
         => \/ /\ hist[t].got = "hit" /\ Pc(t) = "after_get"
               /\ task'[t].ret = task[t].cached_data
               /\ task'[t].ret # None /\ task'[t].ret.val \in ValidFrames
            \/ /\ Pc(t) = "load_return" /\ hist[t].last = "records"
               /\ hist[t].got # "hit" /\ spreadsheet = "open"
               /\ task'[t].ret = task[t].df
               /\ task'[t].ret # None /\ task'[t].ret.val \in ValidFrames
            \/ /\ spreadsheet = "None" /\ hist[t].got # "hit" /\ Pc(t) = "after_get"
               /\ task'[t].ret # None /\ task'[t].ret.val \in DummyFrames(now)
               /\ hist'[t].calls = 0 /\ cache' = cache
            \/ /\ spreadsheet = "open" /\ hist[t].got # "hit"
               /\ Pc(t) \in {"in_call", "sleeping"}
               /\ task'[t].ret = None /\ cache' = cache
               /\ \/ hist'[t].last = "WorksheetNotFound"
                  \/ hist'[t].last = "Exception" /\ hist'[t].calls = max_retries
                  \/ hist'[t].last = "records" /\ remote[Key(t)].records = <<>>

(* C11 (amended): a load returns the frame of the key's unexpired entry, or
   the normalisation of the rows this call fetched, or, when there is no
   connection and no unexpired entry, made-up readings that it does not
   cache; with a connection it returns None in every other case. *)
C11_LoadReturnsFrameDummyOrNone == [][C11_ReturnAct]_vars

C11_Witness ==
  \E t \in Tasks :
    /\ Pc(t) = "done" /\ spreadsheet = "None" /\ hist[t].got = "miss"
    /\ task[t].ret # None /\ task[t].ret.val \in DummyFrames(now)
    /\ hist[t].calls = 0 /\ ~HasEntry(cache, Key(t))

(* ----------------------------- the refresher --------------------------- *)
(* The rows of df_clients, in their order. *)
RowsUpTo(n) == [i \in 1..n |-> i]

(* The step in which the refresh thread calls load_sensor_data. *)
CallStep == Len(refresher'.log) = Len(refresher.log) + 1

(* C12 (as claimed): when a sweep has ended, load_sensor_data has been called
   for every row of the roster, whether or not a load of the sweep returned
   None or raised. *)
C12_AsClaimed ==
  (refresher.pc = "period_sleep" /\ refresher.sweeps >= 1)
    => refresher.log = RowsUpTo(Len(df_clients))

(* The calls of a sweep so far: the rows before the current one, each once
   and in order; only inside a call is the thread in load_sensor_data. *)
C13_SweepInv ==
  /\ refresher.pc = "next_row" => refresher.log = RowsUpTo(refresher.index - 1)
  /\ refresher.pc \in {"in_load", "pacing"} => refresher.log = RowsUpTo(refresher.index)
  /\ (refresher.pc = "period_sleep" /\ refresher.sweeps >= 1 /\ ~refresher.raised)
       => refresher.log = RowsUpTo(Len(df_clients))
  /\ refresher.pc # "in_load" => task[Refresher].pc \in {"idle", "done"}

(* A call finds the thread outside load_sensor_data and asks for the row's
   key; but for the first row it comes after a pacing sleep that began when
   the call before it returned and that is over. *)
C13_SweepAct ==
  /\ (CallStep /\ ~refresher'.raised)
       => /\ task[Refresher].pc \in {"idle", "done"}
          /\ task'[Refresher].pc = "get_lock"
          /\ task'[Refresher].cache_key = RowKey(df_clients[refresher.index])
  /\ (refresher.pc = "in_load" /\ refresher'.pc # "in_load")
       => /\ task[Refresher].pc = "done"
          /\ refresher'.pc = "pacing" /\ refresher'.wake >= now
  /\ (refresher.pc = "pacing" /\ refresher'.pc # "pacing")
       => /\ now >= refresher.wake
          /\ refresher'.pc = "next_row" /\ refresher'.index = refresher.index + 1
  /\ (refresher.pc = "next_row" /\ refresher.index > 1 /\ refresher' # refresher)
       => refresher.log[Len(refresher.log)] = refresher.index - 1

(* C13: a sweep in which no load raises calls load_sensor_data once for each
   row of the roster, in the roster's order, each call after the one before
   has returned and the pacing sleep is over; the thread is never in two
   loads at once. *)
C13_SweepLoadsEveryRowInOrder == [][C13_SweepAct]_vars /\ []C13_SweepInv

C13_Witness ==
  /\ refresher.pc = "period_sleep" /\ refresher.sweeps = MaxSweeps
  /\ ~refresher.raised /\ refresher.log = RowsUpTo(Len(df_clients))
  /\ Len(df_clients) >= 2
  /\ spreadsheet = "open" /\ hist[Refresher].last = "Exception"

(* A sweep begins no sooner than one period after the last one ended, and
   can begin from then on. *)
C14_PeriodAct ==
  (refresher'.sweeps # refresher.sweeps)
    => /\ refresher.pc = "period_sleep"
       /\ refresher.wake = refresher.endAt + RefreshPeriod
       /\ now >= refresher.endAt + RefreshPeriod
       /\ refresher'.sweeps = refresher.sweeps + 1

C14_LoopInv ==
  /\ refresher.pc \in {"period_sleep", "next_row", "in_load", "pacing"}
  /\ (refresher.pc = "period_sleep" /\ refresher.sweeps < MaxSweeps
        /\ now >= refresher.endAt + RefreshPeriod)
       => ENABLED SweepStart

(* C14: the refresh thread never leaves its loop, and (with threads that are
   scheduled and time that passes) after every sweep, also one that ended in
   an exception or in which every fetch failed, the next sweep begins, one
   period after that sweep ended. *)
C14_RefresherKeepsSweeping ==
  /\ []C14_LoopInv
  /\ [][C14_PeriodAct]_vars
  /\ \A n \in 0..(MaxSweeps - 1) :
       (refresher.sweeps = n) ~> (refresher.sweeps = n + 1)

C14_Witness ==
  /\ refresher.sweeps = MaxSweeps /\ refresher.pc = "next_row"
  /\ df_clients = Roster2
  /\ now = refresher.endAt + RefreshPeriod

(* ------------------------- termination of fetch ------------------------ *)
RECURSIVE SumOf(_)
SumOf(seq) == IF seq = <<>> THEN 0 ELSE seq[1] + SumOf(Tail(seq))

InFetch(t) == Pc(t) \in {"in_call", "sleeping"}

(* How far a fetch has come: its attempt, and within it the call before
   the sleep. *)
FetchRank(frame) == 2 * frame.attempt + (IF frame.pc = "sleeping" THEN 1 ELSE 0)

C15_BoundsInv ==
  \A t \in Tasks :
    /\ hist[t].calls <= max_retries
    /\ \A i \in 1..Len(hist[t].waits) : hist[t].waits[i] <= 4
    /\ SumOf(hist[t].waits) <= 7
    /\ InFetch(t) => /\ task[t].attempt < max_retries
                     /\ hist[t].calls = task[t].attempt + 1
    /\ Pc(t) = "in_call" => ENABLED ProviderReply(t)
    /\ Pc(t) = "sleeping" => /\ task[t].wake - now <= 4
                             /\ now >= task[t].wake => ENABLED Wake(t)
                             /\ now < task[t].wake => ENABLED Tick

C15_ProgressAct ==
  \A t \in Tasks :
    (InFetch(t) /\ task'[t] # task[t])
      => \/ task'[t].pc \in {"set_lock", "done"}
         \/ /\ task'[t].pc \in {"in_call", "sleeping"}
            /\ FetchRank(task'[t]) > FetchRank(task[t])

(* C15: a fetch ends whatever the provider answers: every step of it brings
   it nearer to its end or ends it, it is never stuck (the provider answers,
   the sleep ends), it calls the provider at most max_retries times, no
   sleep is longer than 4 and all its sleeps together are at most 7. *)
C15_FetchTerminatesWithinBounds == [][C15_ProgressAct]_vars /\ []C15_BoundsInv

C15_Witness ==
  \E t \in Tasks :
    /\ Pc(t) = "done" /\ hist[t].last = "Exception"
    /\ hist[t].calls = max_retries /\ SumOf(hist[t].waits) = 3

(* ------------------------ no single flight ----------------------------- *)
Missed(t) == hist[t].got \in {"miss", "stale"}

(* C16 (as claimed): a load whose get returned None does not return a frame
   without having called the provider itself. *)
C16_AsClaimed ==
  \A t \in Tasks :
    (Pc(t) = "done" /\ Missed(t) /\ task[t].ret # None) => hist[t].calls >= 1

(* C16 (amended): with a connection, a load whose get returned None goes on
   to call the provider whatever the cache holds by then, and a frame it
   returns is one the provider gave to it; without a connection it returns
   made-up readings and calls nothing. *)
C16_EachMissFetchesItself ==
  \A t \in Tasks :
    /\ (Missed(t) /\ Pc(t) \notin {"get_body", "after_get"} /\ spreadsheet = "open")
         => hist[t].calls >= 1
    /\ (Pc(t) = "done" /\ Missed(t) /\ task[t].ret # None)
         => \/ /\ spreadsheet = "open"
               /\ hist[t].calls >= 1 /\ hist[t].last = "records" /\ hist[t].sets = 1
            \/ /\ spreadsheet = "None"
               /\ hist[t].calls = 0 /\ hist[t].sets = 0
               /\ task[t].ret.val \notin ValidFrames

C16_Witness ==
  \E t \in Tasks, u \in Tasks :
    /\ t # u /\ Key(t) = Key(u)
    /\ Pc(u) = "done" /\ hist[u].got = "miss" /\ hist[u].sets = 1
    /\ Pc(t) = "in_call" /\ hist[t].got = "miss" /\ hist[t].calls = 1
    /\ HasEntry(cache, Key(t)) /\ now - cache[Key(t)].timestamp < ttl

(* --------------------------- the cache key ----------------------------- *)
(* The rows the sweep has called load for before the call it is in. *)
CalledBefore == { refresher.log[k] : k \in 1..(Len(refresher.log) - 1) }

(* C17 (as claimed): the cache key tells (location, booth) pairs apart, so
   a load for one pair is not answered with the entry that a load for a
   different pair put into the cache: a sweep's load finds an entry only
   when the sweep has loaded the same pair before. *)
C17_AsClaimed ==
  (refresher.pc = "in_load" /\ hist[Refresher].got = "hit")
    => \E j \in CalledBefore : df_clients[j] = df_clients[refresher.index]

(* ----------------------- frames and references ------------------------- *)
(* C18 (as claimed): the frame a load hands to its caller is not the object
   the cache entry refers to. *)
C18_AsClaimed ==
  \A t \in Tasks :
    (Pc(t) = "done" /\ task[t].ret # None) => ~hist[t].shared

(* --------------------------- normalisation ----------------------------- *)
Perms(n) == { p \in [1..n -> 1..n] : \A k, l \in 1..n : k # l => p[k] # p[l] }

(* What a cell of the records has to become: the number it spells, or no
   value; the text of a text column, or the None of a column that is not
   there. *)
Spelled(row, col) ==
  IF col \in DOMAIN row /\ row[col] \in {"1", "2", "3"}
    THEN [ok |-> TRUE, n |-> IF row[col] = "1" THEN 1 ELSE IF row[col] = "2" THEN 2 ELSE 3]
    ELSE [ok |-> FALSE, n |-> 0]

TextOf(row, col) == IF col \in DOMAIN row THEN Some(row[col]) ELSE None

(* The frame df holds the rows of data in the order p, converted. *)
HoldsRows(df, data, p) ==
  \A k \in 1..Len(data) :
    /\ df[k].timestamp = Spelled(data[p[k]], "timestamp")
    /\ df[k].co2_ppm = Spelled(data[p[k]], "co2_ppm")
    /\ df[k].pir_state = TextOf(data[p[k]], "pir_state")

(* C19: STEP 4 makes a frame of every non-empty list of records (it never
   raises); the frame holds exactly the rows of the list, in ascending order
   of timestamp with the rows without a timestamp last; a numeric cell that
   is missing or is no number becomes "no value", never zero. *)
C19_NormalizeTotal ==
  /\ sample.data # <<>> => Normalize(sample.data) # {}
  /\ (sample.data # <<>> /\ sample.df = None) => ENABLED ApplyNormalize
  /\ sample.df # None =>
       LET df == sample.df.val
           data == sample.data
       IN
       /\ DOMAIN df = 1..Len(data)
       /\ \E p \in Perms(Len(data)) : HoldsRows(df, data, p)
       /\ \A k, l \in 1..Len(data) :
            k < l => /\ (df[k].timestamp.ok /\ df[l].timestamp.ok)
                          => df[k].timestamp.n <= df[l].timestamp.n
                     /\ ~df[k].timestamp.ok => ~df[l].timestamp.ok
       /\ \A k \in 1..Len(data) :
            /\ df[k].co2_ppm # [ok |-> TRUE, n |-> 0]
            /\ df[k].timestamp # [ok |-> TRUE, n |-> 0]

C19_Witness ==
  /\ sample.df # None
  /\ Len(sample.data) = 3
  /\ DOMAIN sample.data[1] = {"timestamp", "co2_ppm"}
  /\ sample.data[1].timestamp = "x" /\ sample.data[1].co2_ppm = ""
  /\ sample.data[2].timestamp = "2" /\ sample.data[2].co2_ppm = "x"
  /\ sample.data[3].timestamp = "1" /\ sample.data[3].co2_ppm = "1"
  /\ sample.df.val[1].timestamp = Val(1)
  /\ sample.df.val[3].timestamp = NoValue /\ sample.df.val[3].co2_ppm = NoValue

(* C20 (as claimed): rows with equal timestamps are all kept and come out in
   the order they had in the records. *)
C20_AsClaimed ==
  sample.df # None =>
    \E p \in Perms(Len(sample.data)) :
      /\ HoldsRows(sample.df.val, sample.data, p)
      /\ \A k, l \in 1..Len(sample.data) :
           (k < l /\ sample.df.val[k].timestamp = sample.df.val[l].timestamp)
             => p[k] < p[l]

(* --------------------------- comfort score ----------------------------- *)
(* The scale of each metric as a table: the values scoring 100, the values
   scoring the middle score, and that score. *)
InRange(v, lo, hi) == lo <= v /\ v <= hi

TableScore(col, v) ==
  CASE col = "temp_c" ->
         IF InRange(v, 20, 25) THEN 100
         ELSE IF InRange(v, 18, 19) \/ InRange(v, 26, 27) THEN 50 ELSE 0
    [] col = "humidity_pct" ->
         IF InRange(v, 40, 50) THEN 100
         ELSE IF InRange(v, 30, 39) \/ InRange(v, 51, 60) THEN 50 ELSE 0
    [] col = "co2_ppm" ->
         IF v <= 600 THEN 100 ELSE IF v <= 1000 THEN 75
         ELSE IF v <= 2000 THEN 25 ELSE 0
    [] col = "voc" -> IF v <= 300 THEN 100 ELSE IF v <= 500 THEN 50 ELSE 0
    [] col = "pm25_ugm3" -> IF v <= 12 THEN 100 ELSE IF v <= 35 THEN 50 ELSE 0

ScoredMetrics == {"temp_c", "humidity_pct", "co2_ppm", "voc", "pm25_ugm3"}
Present(row) == { col \in ScoredMetrics : row[col].ok }

RECURSIVE TableSum(_, _)
TableSum(row, cols) ==
  IF cols = {} THEN 0
  ELSE LET col == CHOOSE c \in cols : TRUE
       IN TableScore(col, row[col].n) + TableSum(row, cols \ {col})

(* C21: the comfort score is the mean of the sub-scores of the metrics that
   are present, each sub-score taken from the table and one of 0, 25, 50, 75,
   100; it is 0 when no metric is present; it lies between 0 and 100; the
   reading 22, 45, 500, 200, 10 scores 100 and a reading with nothing but
   co2_ppm = 1500 scores 25. *)
C21_ComfortIsMeanOfPresent ==
  sample.score # None =>
    LET row == sample.row
        score == sample.score.val
    IN
    /\ score.den > 0
    /\ \A col \in Present(row) : TableScore(col, row[col].n) \in {0, 25, 50, 75, 100}
    /\ Present(row) = {} => score.num = 0
    /\ Present(row) # {} =>
         score.num * Cardinality(Present(row)) = TableSum(row, Present(row)) * score.den
    /\ 0 <= score.num /\ score.num <= 100 * score.den
    /\ (/\ row.temp_c = Val(22) /\ row.humidity_pct = Val(45) /\ row.co2_ppm = Val(500)
        /\ row.voc = Val(200) /\ row.pm25_ugm3 = Val(10))
         => score.num = 100 * score.den
    /\ (Present(row) = {"co2_ppm"} /\ row.co2_ppm = Val(1500))
         => score.num = 25 * score.den

C21_Witness ==
  /\ sample.score # None
  /\ Present(sample.row) = {"temp_c", "co2_ppm", "voc"}
  /\ sample.row.temp_c = Val(26) /\ sample.row.co2_ppm = Val(1001)
  /\ sample.row.voc = Val(300)
  /\ sample.score.val = [num |-> 175, den |-> 3]

(* ---------------------------- utilization ------------------------------ *)
(* A pir_state with the blanks around it removed and its case normalised. *)
Trimmed(text) ==
  SelectSeq(text, LAMBDA w : w # " ")

Cased(text) ==
  [i \in 1..Len(text) |-> IF text[i] = "occupied" THEN "Occupied" ELSE text[i]]

WithState(rows) == { i \in 1..Len(rows) : rows[i].pir_state # None }
Occupied(rows) ==
  { i \in WithState(rows) : Cased(Trimmed(rows[i].pir_state.val)) = <<"Occupied">> }

(* The percent n of d that a quotient stands for. *)
IsPercentOf(q, n, d) == q.den # 0 /\ q.num * d = 100 * n * q.den

(* C22 (as claimed): the temporal utilization is the percent of the readings
   with a pir_state whose state, trimmed and in normalised case, is
   "Occupied", and 0 when no reading has a pir_state; the states "Occupied",
   "occupied ", "Vacant", "Vacant" give 50. *)
C22_AsClaimed ==
  (sample.view = "dashboard" /\ sample.out # None) =>
    LET rows == sample.filtered_df
        util == sample.out.val.temporal_util
    IN
    /\ WithState(rows) = {} => util.num = 0
    /\ WithState(rows) # {} =>
         IsPercentOf(util, Cardinality(Occupied(rows)), Cardinality(WithState(rows)))
    /\ (/\ Len(rows) = 4
        /\ rows[1].pir_state = Some(<<"Occupied">>)
        /\ rows[2].pir_state = Some(<<"occupied", " ">>)
        /\ rows[3].pir_state = Some(<<"Vacant">>)
        /\ rows[4].pir_state = Some(<<"Vacant">>))
         => util.num = 50 * util.den

RECURSIVE SumOver(_, _)
SumOver(rows, idx) ==
  IF idx = {} THEN 0
  ELSE LET i == CHOOSE j \in idx : TRUE
       IN rows[i].occupancy_count.n + SumOver(rows, idx \ {i})

Counted(rows) ==
  { i \in 1..Len(rows) : rows[i].occupancy_count.ok /\ rows[i].occupancy_count.n > 0 }

(* C23: the capacity utilization is 100 * mean / max_occ over the readings
   with a positive occupancy_count; it is 0 when there is none or max_occ is
   not positive, and nothing is ever divided by zero; the counts 2 and 4
   with max_occ = 10 give 30. *)
C23_CapacityIsMeanOverMax ==
  (sample.view = "dashboard" /\ sample.out # None) =>
    LET rows == sample.filtered_df
        max_occ == sample.max_occ
        util == sample.out.val.capacity_util
        n == Cardinality(Counted(rows))
    IN
    /\ util.den # 0
    /\ (n = 0 \/ max_occ <= 0) => util.num = 0
    /\ (n > 0 /\ max_occ > 0) =>
         util.num * (n * max_occ) = 100 * SumOver(rows, Counted(rows)) * util.den
    /\ (/\ Len(rows) = 2 /\ max_occ = 10
        /\ rows[1].occupancy_count = Val(2) /\ rows[2].occupancy_count = Val(4))
         => util.num = 30 * util.den

C23_Witness ==
  /\ sample.view = "dashboard" /\ sample.out # None
  /\ Len(sample.filtered_df) = 3 /\ sample.max_occ = 10
  /\ sample.filtered_df[1].occupancy_count = Val(2)
  /\ sample.filtered_df[2].occupancy_count = Val(0)
  /\ sample.filtered_df[3].occupancy_count = Val(4)
  /\ sample.out.val.capacity_util = [num |-> 600, den |-> 20]

(* ----------------------------- is_expired ------------------------------ *)
C24_CallAct ==
  sample' # sample =>
    LET key == sample'.key IN
    /\ cache' = cache
    /\ sample'.expired <=>
         (~HasEntry(cache, key) \/ now - cache[key].timestamp >= ttl)
    /\ sample'.expired <=> (GetResult(cache, key, now) = None)

C24_SameAsGet ==
  \A key \in AllKeys :
    is_expired(cache, key, now) <=> (GetResult(cache, key, now) = None)

(* C24: is_expired answers true exactly when the key has no entry or the
   entry's age is at least ttl; it leaves the mapping as it is, an expired
   entry included; in every state it is true exactly when get would return
   None. *)
C24_IsExpiredAgreesWithGet == [][C24_CallAct]_vars /\ []C24_SameAsGet

C24_Witness ==
  /\ sample.n = 1 /\ sample.expired /\ sample.at = now
  /\ HasEntry(cache, sample.key)
  /\ now - cache[sample.key].timestamp = ttl

(* ------------------------- retries, then rows -------------------------- *)
(* The sleeps before a call that is made at the given attempt. *)
BackoffsBefore(attempt) == [i \in 1..attempt |-> 2 ^ (i - 1)]

C25_FetchAct ==
  \A t \in Tasks :
    /\ (Pc(t) = "in_call" /\ task'[t].pc = "set_lock")
         => /\ task[t].attempt < max_retries
            /\ hist'[t].last = "records"
            /\ hist'[t].calls = task[t].attempt + 1
            /\ hist'[t].waits = BackoffsBefore(task[t].attempt)
            /\ IsFrameOf(task'[t].df, remote[Key(t)].records)
            /\ now' = now
    /\ (Pc(t) = "in_call" /\ task'[t].pc = "sleeping")
         => /\ hist'[t].last = "Exception"
            /\ task'[t].wake = now + 2 ^ task[t].attempt
    /\ (Pc(t) = "sleeping" /\ task'[t].pc = "in_call")
         => /\ now >= task[t].wake
            /\ task'[t].attempt = task[t].attempt + 1
            /\ hist'[t].calls = hist[t].calls + 1

C25_FetchInv ==
  \A t \in Tasks :
    (hist[t].last = "records" /\ Pc(t) \in {"set_lock", "set_body", "load_return", "done"})
      => /\ hist[t].calls = Len(hist[t].waits) + 1
         /\ hist[t].waits = BackoffsBefore(Len(hist[t].waits))
         /\ Len(hist[t].waits) < max_retries

(* C25: when the provider raises on the first k calls (k < 3) and then hands
   over rows, fetch has made exactly k + 1 calls, has slept 1, 2, ... (k
   sleeps, each before the next call, in that order), returns the rows of the
   last call, and neither sleeps nor calls after it. *)
C25_RetriesThenRows == [][C25_FetchAct]_vars /\ []C25_FetchInv

C25_Witness ==
  \E t \in Tasks :
    /\ Pc(t) = "set_lock" /\ hist[t].last = "records"
    /\ hist[t].calls = 3 /\ hist[t].waits = <<1, 2>>
    /\ IsFrameOf(task[t].df, remote[Key(t)].records)

(* -------------------------- an empty worksheet ------------------------- *)
(* The provider hands an empty list of records to thread t: fetch and load
   return None in the same step, nothing is written, nobody sleeps. *)
C26_EmptyAct ==
  \A t \in Tasks :
    (/\ Pc(t) = "in_call" /\ task'[t] # task[t]
     /\ hist'[t].last = "records" /\ remote[Key(t)].records = <<>>)
      => /\ task'[t].pc = "done" /\ task'[t].ret = None
         /\ hist'[t].calls = hist[t].calls /\ hist'[t].waits = hist[t].waits
         /\ hist'[t].sets = 0
         /\ cache' = cache

(* Past its get, a load has called the provider. *)
Fetched(t) == Pc(t) \notin {"get_lock", "get_body", "after_get"} => hist[t].calls >= 1

(* C26 (as claimed): an empty list of records ends fetch and load with None
   after that one call, without a sleep and without a cache entry, and every
   later load of the key calls the provider again. *)
C26_AsClaimed ==
  \A t \in Tasks : hist[t].prevEmpty => Fetched(t)

C26_LaterInv ==
  \A t \in Tasks :
    hist[t].prevEmpty =>
      /\ hist[t].got # "hit" => Fetched(t)
      /\ hist[t].got = "hit" =>
           \E u \in Tasks : u # t /\ Key(u) = Key(t) /\ hist[u].sets = 1

(* C26 (amended): as claimed, but a later load of the key calls the provider
   again only when it finds no valid entry, and it finds one only when
   another thread has set it meanwhile. *)
C26_EmptyNotCached == [][C26_EmptyAct]_vars /\ []C26_LaterInv

C26_Witness ==
  \E t \in Tasks :
    /\ hist[t].prevEmpty /\ hist[t].got = "miss"
    /\ Pc(t) = "done" /\ hist[t].calls = 1 /\ hist[t].last = "records"
    /\ task[t].ret = None /\ ~HasEntry(cache, Key(t))

(* ----------------------- stale entry, failed fetch --------------------- *)
(* The load of thread t found an expired entry and ended with None. *)
StaleAndFailed(t) ==
  Pc(t) = "done" /\ hist[t].got = "stale" /\ task[t].ret = None

(* C27: a load that found an expired entry and whose fetch failed (no such
   worksheet, attempts used up, or no rows) returns None, and from then on
   the key has no entry unless another thread has set one since the get. *)
C27_StaleGoneAfterFailure ==
  \A t \in Tasks :
    StaleAndFailed(t) =>
      /\ hist[t].sets = 0
      /\ hist[t].last \in {"WorksheetNotFound", "Exception", "records"}
      /\ HasEntry(cache, Key(t)) => hist[t].refilled

C27_Witness ==
  \E t \in Tasks :
    /\ StaleAndFailed(t)
    /\ hist[t].last = "Exception" /\ hist[t].calls = max_retries
    /\ ~hist[t].refilled /\ ~HasEntry(cache, Key(t))

(* ------------------------ refresh period and ttl ----------------------- *)
(* A load of the sweep found a valid entry only if the sweep itself has
   loaded the key before: what the sweep before wrote has expired. *)
C28_PreviousExpired ==
  (refresher.pc = "in_load" /\ hist[Refresher].got = "hit")
    => \E j \in CalledBefore : RowKey(df_clients[j]) = Key(Refresher)

(* With a connection, a sweep that is over has called the provider for the
   key of every row of the roster. *)
C28_EveryKeyFetched ==
  (refresher.pc = "period_sleep" /\ refresher.sweeps >= 1 /\ spreadsheet = "open")
    => \A i \in 1..Len(df_clients) :
         ~KeyRaises(df_clients[i]) => RowKey(df_clients[i]) \in refresher.fetched

(* When the next sweep is due, no entry of the cache is valid any more. *)
C28_NoneValidWhenDue ==
  (refresher.pc = "period_sleep" /\ now >= refresher.wake)
    => \A k \in DOMAIN cache : now - cache[k].timestamp >= ttl

(* C28 (as claimed): with a refresh period equal to ttl and no other caller,
   a sweep's load never finds the entry of the sweep before still valid, so
   every sweep calls the provider for every key of the roster, and once the
   entries have expired the cache holds no valid entry until the sweep loads
   the key again. *)
C28_AsClaimed ==
  /\ C28_PreviousExpired
  /\ C28_EveryKeyFetched
  /\ C28_NoneValidWhenDue
====
